---------------------------- MODULE Spec2Model ----------------------------
(***************************************************************************)
(* AtmosTrack AI server (Backend/ai_server.py): a FastAPI service that     *)
(* loads a pickled classifier at import time and serves POST /classify.    *)
(*                                                                         *)
(* Numbers.  Every Python float is written as a fixed-point integer with   *)
(* four decimals (Scale units per 1.0): 0.8 is 8000, 95.2 is 952000,       *)
(* 100.0 is 1000000.  The probability values the model may return are      *)
(* taken from ProbValues, a set on which binary floating point and this    *)
(* decimal arithmetic agree: p * 100.0 is either far from a rounding tie   *)
(* or an exact binary tie (p a multiple of 1/16), which round() settles    *)
(* half-to-even.  An int (Hour) is a plain integer.                        *)
(***************************************************************************)
EXTENDS Integers, Sequences, FiniteSets

\* Fixed-point units per 1.0 (the representation of float).
Scale == 10000

\* Number of request slots the host serves concurrently.
MaxReq == 2

Requests == 1..MaxReq

----------------------------------------------------------------------------
(* Config, lines 6-10 *)

SOURCES_CONFIG == <<"Vehicle", "Industry", "Construction", "Clean">>

\* MODEL_ACCURACY = 95.2
MODEL_ACCURACY_CONFIG == 952 * (Scale \div 10)

----------------------------------------------------------------------------
(* FeatureInput, lines 18-25.  The fields of INT_FIELDS are declared int,   *)
(* the others float; FIELDS keeps the declaration order.                   *)

FIELDS == <<"VOC_avg", "VOC_std", "CO2_avg", "CO2_std",
            "Vibration_amp", "Vibration_freq", "Hour">>

FieldNames == {FIELDS[i] : i \in 1..Len(FIELDS)}

INT_FIELDS == {"Hour"}

(* A JSON value of a request body: a number (fixed-point) or a string.  A  *)
(* missing key is a field outside the body's DOMAIN.                       *)
JNum(n) == [kind |-> "num", num |-> n, text |-> ""]
JStr(s) == [kind |-> "str", num |-> 0, text |-> s]

\* The strings of the inputs that spell a number, and the number spelled.
IsNumberText(t) == t \in {"14", "1.2"}

NumberOfText(t) ==
    CASE t = "14" -> 14 * Scale
      [] t = "1.2" -> 12000
      [] OTHER -> 0

(* A BaseModel validates in its default (lax) mode, no strict configuration *)
(* being set: float takes a JSON number or a string that spells a number,   *)
(* int takes a JSON number without fractional part or a string that spells  *)
(* an integer; any other string is an error.  (A JSON number with a         *)
(* fractional part for Hour is not among the inputs.)                       *)
Accepted(n) == [ok |-> TRUE, val |-> n]
Rejected == [ok |-> FALSE, val |-> 0]

\* Faulty variant: no validation, the value is taken as it comes.
CoerceUnchecked(f, v) ==
    LET n == IF v.kind = "num" THEN v.num ELSE NumberOfText(v.text)
    IN  Accepted(IF f \in INT_FIELDS THEN n \div Scale ELSE n)

Coerce(f, v) ==
    LET n == IF v.kind = "num" THEN v.num ELSE NumberOfText(v.text)
    IN  IF v.kind = "str" /\ ~IsNumberText(v.text) THEN Rejected
        ELSE IF f \in INT_FIELDS
             THEN IF n % Scale = 0 THEN Accepted(n \div Scale) ELSE Rejected
             ELSE Accepted(n)

\* The fields of body b the FeatureInput model rejects: missing, or of a
\* value that is not of, and cannot be coerced to, the declared type.
FieldErrors(b) ==
    {f \in FieldNames : f \notin DOMAIN b \/ ~Coerce(f, b[f]).ok}

\* The validated FeatureInput object: float fields as floats, Hour as int.
FeatureInput(b) == [f \in FieldNames |-> Coerce(f, b[f]).val]

----------------------------------------------------------------------------
(* classify_source, lines 28-53: the pure steps of the handler *)

\* np.array stores the row as float64: the int Hour becomes a float of the
\* same value.
NpFloat64OfInt(i) == i * Scale

\* Faulty variant: CO2_std and CO2_avg change places.
FeatureVectorSwapped(data) ==
    <<data["VOC_avg"], data["VOC_std"], data["CO2_std"], data["CO2_avg"],
      data["Vibration_amp"], data["Vibration_freq"],
      NpFloat64OfInt(data["Hour"])>>

\* x = np.array([[float(data.VOC_avg), ..., int(data.Hour)]]), lines 30-38
FeatureVector(data) ==
    <<data["VOC_avg"], data["VOC_std"], data["CO2_avg"], data["CO2_std"],
      data["Vibration_amp"], data["Vibration_freq"],
      NpFloat64OfInt(data["Hour"])>>

(* The model artifact is opaque: a function from feature vectors to what   *)
(* predict_proba does on them, either a row of probabilities or an         *)
(* exception (shape mismatch, corrupted artifact).                         *)
Returned(p) == [raised |-> FALSE, proba |-> p]
Raised == [raised |-> TRUE, proba |-> <<>>]

\* model.predict_proba(x)[0], line 40
PredictProba(m, v) == m[v]

\* np.argmax scans left to right and keeps the first maximum; the result is
\* the 0-based position.  p is not empty.
RECURSIVE ArgMaxScan(_, _, _)
ArgMaxScan(p, i, best) ==
    IF i > Len(p) THEN best
    ELSE ArgMaxScan(p, i + 1, IF p[i] > p[best + 1] THEN i - 1 ELSE best)

\* Faulty variant: the scan keeps the last maximum.
RECURSIVE ArgMaxScanLast(_, _, _)
ArgMaxScanLast(p, i, best) ==
    IF i > Len(p) THEN best
    ELSE ArgMaxScanLast(p, i + 1, IF p[i] >= p[best + 1] THEN i - 1 ELSE best)

ArgMaxLast(p) == ArgMaxScanLast(p, 2, 0)

\* idx = int(np.argmax(proba)), line 41
ArgMax(p) == ArgMaxScan(p, 2, 0)

\* Python's built-in min and max of two arguments keep the first unless the
\* second compares smaller (larger).
PyMin(a, b) == IF b < a THEN b ELSE a
PyMax(a, b) == IF b > a THEN b ELSE a

\* Faulty variant: no clamp.
ClampNone(raw_conf) == raw_conf

\* raw_conf = max(0.0, min(1.0, raw_conf)), line 46
Clamp(raw_conf) == PyMax(0, PyMin(Scale, raw_conf))

\* confidence = raw_conf * 100.0, line 47
Percent(raw_conf) == raw_conf * 100

\* 0.1 in fixed point.
Tenth == Scale \div 10

\* Faulty variant: the digits after the first decimal are cut off.
RoundTruncate(v) == (v \div Tenth) * Tenth

\* round(confidence, 1), line 51: to the nearest tenth, an exact tie to the
\* even tenth.
Round1(v) ==
    LET q == v \div Tenth
        r == v % Tenth
    IN  IF 2 * r < Tenth THEN q * Tenth
        ELSE IF 2 * r > Tenth THEN (q + 1) * Tenth
        ELSE IF q % 2 = 0 THEN q * Tenth
        ELSE (q + 1) * Tenth

(* Responses.  body holds the JSON object of a 200 response, or nothing;   *)
(* detail holds the offending fields of a validation error.                *)
NoResponse == [status |-> 0, body |-> {}, detail |-> {}]

\* FastAPI answers a body that fails FeatureInput with 422 and the errors.
ValidationError(fields) == [status |-> 422, body |-> {}, detail |-> fields]

\* Faulty variant: the exception is caught and a default result returned.
ServerErrorFallback(srcs, acc) ==
    [status |-> 200,
     body |-> {[label |-> srcs[1], confidence |-> 0, modelAccuracy |-> acc]},
     detail |-> {}]

\* The handler catches nothing: an exception in it ends the request with
\* 500 Internal Server Error.  srcs and acc are the globals in scope.
ServerError(srcs, acc) == [status |-> 500, body |-> {}, detail |-> {}]

\* Faulty variant: the label is built from the class name.
ResultWithClassName(srcs, acc, p, i) ==
    [status |-> 200,
     body |-> {[label |-> "class_" \o srcs[i + 1],
                confidence |-> Round1(Percent(Clamp(p[i + 1]))),
                modelAccuracy |-> acc]},
     detail |-> {}]

\* Faulty variant: modelAccuracy is taken from the prediction.
ResultAccuracyFromModel(srcs, acc, p, i) ==
    [status |-> 200,
     body |-> {[label |-> srcs[i + 1],
                confidence |-> Round1(Percent(Clamp(p[i + 1]))),
                modelAccuracy |-> Round1(Percent(Clamp(p[i + 1])))]},
     detail |-> {}]

\* Lines 42-53 once idx is a position of SOURCES: the returned dict.
Result(srcs, acc, p, i) ==
    [status |-> 200,
     body |-> {[label |-> srcs[i + 1],
                confidence |-> Round1(Percent(Clamp(p[i + 1]))),
                modelAccuracy |-> acc]},
     detail |-> {}]

----------------------------------------------------------------------------
(* Inputs: request bodies and model artifacts *)

\* The request of the documented example: VOC_avg 1.2, VOC_std 0.3,
\* CO2_avg 410, CO2_std 5, Vibration_amp 0.01, Vibration_freq 12, Hour 14.
ExampleBody ==
    [VOC_avg |-> JNum(12000), VOC_std |-> JNum(3000),
     CO2_avg |-> JNum(4100000), CO2_std |-> JNum(50000),
     Vibration_amp |-> JNum(100), Vibration_freq |-> JNum(120000),
     Hour |-> JNum(14 * Scale)]

With(b, f, v) == [g \in DOMAIN b |-> IF g = f THEN v ELSE b[g]]
Without(b, f) == [g \in DOMAIN b \ {f} |-> b[g]]

\* Bodies FeatureInput accepts: the example, a record with every field
\* different, Hour outside 0..23 on both sides, and the example with one
\* number sent as a string.
OtherBody ==
    [VOC_avg |-> JNum(3000), VOC_std |-> JNum(12000),
     CO2_avg |-> JNum(50000), CO2_std |-> JNum(4100000),
     Vibration_amp |-> JNum(120000), Vibration_freq |-> JNum(100),
     Hour |-> JNum(3 * Scale)]

ValidBodies ==
    {ExampleBody, OtherBody,
     With(ExampleBody, "Hour", JNum(25 * Scale)),
     With(ExampleBody, "Hour", JNum(-1 * Scale)),
     With(ExampleBody, "Hour", JStr("14")),
     With(ExampleBody, "VOC_avg", JStr("1.2"))}

\* Bodies FeatureInput rejects: each field missing, each field a string that
\* spells no number, a fraction spelled for Hour, the empty object, and two
\* offending fields at once.
InvalidBodies ==
    {Without(ExampleBody, f) : f \in FieldNames}
    \cup {With(ExampleBody, f, JStr("five")) : f \in FieldNames}
    \cup {With(ExampleBody, "Hour", JStr("1.2")),
          Without(Without(ExampleBody, "Hour"), "VOC_avg"),
          With(Without(ExampleBody, "CO2_std"), "Hour", JStr("five")),
          [f \in {} |-> JNum(0)]}

AllBodies == ValidBodies \cup InvalidBodies

VectorsOf(bodies) ==
    {FeatureVector(FeatureInput(b)) : b \in {c \in bodies : FieldErrors(c) = {}}}

(* Probabilities a model may put in a row: below 0, 0, exact binary ties   *)
(* (0.0625 -> 6.25, 0.1875 -> 18.75), a value that rounds up (0.1278), the *)
(* example's maximum 0.8, 1.0 and a value above 1.                         *)
ProbValues == {-625, 0, 625, 1278, 1875, 8000, 10000, 12000}

ExampleProba == <<1000, 500, 500, 8000>>

\* Rows of 4 classes, and rows of a model trained with 5 or 3 classes.
ProbRows4 == [1..4 -> ProbValues] \cup {ExampleProba}

ProbRowsOther ==
    {<<1000, 1000, 1000, 1000, 6000>>, <<6000, 1000, 1000, 1000, 1000>>,
     <<2000, 5000, 3000>>}

\* Artifacts for the single-request specification: every row, and failure,
\* whatever the vector.
ClassifyModels(bodies) ==
    {[v \in VectorsOf(bodies) |-> o] :
        o \in {Returned(p) : p \in ProbRows4 \cup ProbRowsOther} \cup {Raised}}

\* Artifacts for the concurrent specification: each vector gets a row, a
\* tied row, a 5-class row or a failure of its own.
ServeBodies ==
    {ExampleBody, OtherBody, Without(ExampleBody, "Hour"),
     With(ExampleBody, "Hour", JStr("five"))}

ServeOutcomes ==
    {Returned(ExampleProba), Returned(<<4000, 4000, 1000, 1000>>),
     Returned(<<1000, 1000, 1000, 1000, 6000>>), Raised}

ServeModels(bodies) == [VectorsOf(bodies) -> ServeOutcomes]

\* The content of models/feature_names.pkl: the training pipeline's names.
FeatureNamesArtifact == FIELDS

----------------------------------------------------------------------------
(* State *)

VARIABLES
    phase,            \* "import" while lines 1-14 run, then "serving"
    SOURCES,          \* module global, line 9
    MODEL_ACCURACY,   \* module global, line 10
    model,            \* module global, line 13
    deploy_features,  \* module global, line 14
    pc,               \* per request: where its handling stands
    body,             \* per request: the JSON body received
    data,             \* per request: the validated FeatureInput
    x,                \* per request: local x of classify_source
    proba,            \* per request: local proba
    idx,              \* per request: local idx
    calls,            \* per request: calls of model.predict_proba made for it
    response          \* per request: the response sent

globals == <<SOURCES, MODEL_ACCURACY, model, deploy_features>>
locals == <<data, x, proba, idx>>
vars == <<phase, SOURCES, MODEL_ACCURACY, model, deploy_features,
          pc, body, data, x, proba, idx, calls, response>>

NoBody == [f \in {} |-> JNum(0)]
NoData == [f \in {} |-> 0]
NoModel == [v \in {} |-> Raised]

Init ==
    /\ phase = "import"
    /\ SOURCES = SOURCES_CONFIG
    /\ MODEL_ACCURACY = MODEL_ACCURACY_CONFIG
    /\ model = NoModel
    /\ deploy_features = <<>>
    /\ pc = [r \in Requests |-> "idle"]
    /\ body = [r \in Requests |-> NoBody]
    /\ data = [r \in Requests |-> NoData]
    /\ x = [r \in Requests |-> <<>>]
    /\ proba = [r \in Requests |-> <<>>]
    /\ idx = [r \in Requests |-> -1]
    /\ calls = [r \in Requests |-> 0]
    /\ response = [r \in Requests |-> NoResponse]

----------------------------------------------------------------------------
(* Startup, lines 12-16 *)

\* model = joblib.load(MODEL_PATH); deploy_features = joblib.load(...).  The
\* app object exists, and requests are routed, only after both.
Load(models) ==
    /\ phase = "import"
    /\ \E m \in models : model' = m
    /\ deploy_features' = FeatureNamesArtifact
    /\ phase' = "serving"
    /\ UNCHANGED <<SOURCES, MODEL_ACCURACY, pc, body, calls, response>>
    /\ UNCHANGED locals

----------------------------------------------------------------------------
(* POST /classify, lines 27-53.  The handler is a plain def: the host runs  *)
(* each request on a worker thread, so the steps of different requests      *)
(* interleave.                                                              *)

\* Faulty variants: a module-level variable in place of a local, so that
\* every request reads the value of the lowest slot that has one.
SharedSlot(fs) ==
    LET set == {q \in DOMAIN fs : fs[q] # <<>>}
    IN  CHOOSE q \in set : \A q2 \in set : q <= q2

InputOfShared(xs, r) == xs[SharedSlot(xs)]

\* x is a local of classify_source: the call of line 40 reads the x of its
\* own request.
InputOf(xs, r) == xs[r]

RowOfShared(ps, r) == ps[SharedSlot(ps)]

\* proba is a local of classify_source: lines 41-45 read the proba of their
\* own request.
RowOf(ps, r) == ps[r]

\* A request arrives on a free slot.
Receive(r, bodies) ==
    /\ phase = "serving"
    /\ pc[r] = "idle"
    /\ \E b \in bodies : body' = [body EXCEPT ![r] = b]
    /\ pc' = [pc EXCEPT ![r] = "received"]
    /\ UNCHANGED <<phase, calls, response>>
    /\ UNCHANGED globals
    /\ UNCHANGED locals

\* The host validates the body against FeatureInput before it calls the
\* handler (data: FeatureInput, line 28).
Validate(r) ==
    /\ pc[r] = "received"
    /\ IF FieldErrors(body[r]) # {}
       THEN /\ response' =
                   [response EXCEPT ![r] = ValidationError(FieldErrors(body[r]))]
            /\ pc' = [pc EXCEPT ![r] = "done"]
            /\ data' = data
       ELSE /\ data' = [data EXCEPT ![r] = FeatureInput(body[r])]
            /\ pc' = [pc EXCEPT ![r] = "validated"]
            /\ response' = response
    /\ UNCHANGED <<phase, body, x, proba, idx, calls>>
    /\ UNCHANGED globals

\* Lines 30-38.
Assemble(r) ==
    /\ pc[r] = "validated"
    /\ x' = [x EXCEPT ![r] = FeatureVector(data[r])]
    /\ pc' = [pc EXCEPT ![r] = "assembled"]
    /\ UNCHANGED <<phase, body, data, proba, idx, calls, response>>
    /\ UNCHANGED globals

\* Line 40.  An exception of predict_proba leaves the handler.
Predict(r) ==
    /\ pc[r] = "assembled"
    /\ calls' = [calls EXCEPT ![r] = @ + 1]
    /\ LET out == PredictProba(model, InputOf(x, r))
       IN  IF out.raised
           THEN /\ response' =
                       [response EXCEPT ![r] = ServerError(SOURCES, MODEL_ACCURACY)]
                /\ pc' = [pc EXCEPT ![r] = "done"]
                /\ proba' = proba
           ELSE /\ proba' = [proba EXCEPT ![r] = out.proba]
                /\ pc' = [pc EXCEPT ![r] = "predicted"]
                /\ response' = response
    /\ UNCHANGED <<phase, body, data, x, idx>>
    /\ UNCHANGED globals

\* Lines 41-53.  SOURCES[idx] raises IndexError when the model has more
\* classes than SOURCES has labels.
Respond(r) ==
    /\ pc[r] = "predicted"
    /\ LET i == ArgMax(RowOf(proba, r))
       IN  /\ idx' = [idx EXCEPT ![r] = i]
           /\ response' =
                  [response EXCEPT ![r] =
                      IF i >= Len(SOURCES)
                      THEN ServerError(SOURCES, MODEL_ACCURACY)
                      ELSE Result(SOURCES, MODEL_ACCURACY, RowOf(proba, r), i)]
    /\ pc' = [pc EXCEPT ![r] = "done"]
    /\ UNCHANGED <<phase, body, data, x, proba, calls>>
    /\ UNCHANGED globals

\* The response is sent; the handler's locals are gone and the slot is free
\* for the next request.
Close(r) ==
    /\ pc[r] = "done"
    /\ pc' = [pc EXCEPT ![r] = "idle"]
    /\ body' = [body EXCEPT ![r] = NoBody]
    /\ data' = [data EXCEPT ![r] = NoData]
    /\ x' = [x EXCEPT ![r] = <<>>]
    /\ proba' = [proba EXCEPT ![r] = <<>>]
    /\ idx' = [idx EXCEPT ![r] = -1]
    /\ calls' = [calls EXCEPT ![r] = 0]
    /\ response' = [response EXCEPT ![r] = NoResponse]
    /\ UNCHANGED phase
    /\ UNCHANGED globals

Handle(r) ==
    \/ Validate(r)
    \/ Assemble(r)
    \/ Predict(r)
    \/ Respond(r)
    \/ Close(r)

\* The service under concurrent requests.
Next ==
    \/ Load(ServeModels(ServeBodies))
    \/ \E r \in Requests : Receive(r, ServeBodies) \/ Handle(r)

Spec == Init /\ [][Next]_vars

\* One request at a time, over every body and every row of probabilities.
NextClassify ==
    \/ Load(ClassifyModels(AllBodies))
    \/ Receive(1, AllBodies)
    \/ Handle(1)

SpecClassify == Init /\ [][NextClassify]_vars

\* What a request with body b gets when it is handled alone.
ClassifyAlone(m, srcs, acc, b) ==
    IF FieldErrors(b) # {}
    THEN ValidationError(FieldErrors(b))
    ELSE LET out == PredictProba(m, FeatureVector(FeatureInput(b)))
         IN  IF out.raised \/ ArgMax(out.proba) >= Len(srcs)
             THEN ServerError(srcs, acc)
             ELSE Result(srcs, acc, out.proba, ArgMax(out.proba))

----------------------------------------------------------------------------
(* Properties *)

\* The one JSON object of a 200 response.
ResultOf(r) == CHOOSE b \in response[r].body : TRUE

Succeeded(r) == pc[r] = "done" /\ response[r].status = 200

\* C1: a valid request for which the model returns a row of 4 values ends in
\* a successful response, and every successful response carries exactly one
\* result whose label is Vehicle, Industry, Construction or Clean.
C1_LabelInFixedSet ==
    \A r \in Requests :
        /\ (pc[r] = "done" /\ Len(proba[r]) = 4) => response[r].status = 200
        /\ response[r].status = 200 =>
              /\ Cardinality(response[r].body) = 1
              /\ \A b \in response[r].body :
                    b.label \in {"Vehicle", "Industry", "Construction", "Clean"}

\* A request served from a row with values outside [0, 1] got a label.
C1_Witness ==
    \E r \in Requests :
        /\ Succeeded(r)
        /\ proba[r] = <<-625, 12000, 12000, 0>>
        /\ ResultOf(r).label = "Industry"

\* C2: the index selected is a position of the maximum of the row, no
\* earlier position holds the same value, and the label returned is the
\* entry of [Vehicle, Industry, Construction, Clean] at that index.
C2_ArgMaxLowestIndex ==
    \A r \in Requests :
        idx[r] # -1 =>
            LET p == proba[r]
                i == idx[r] + 1
            IN  /\ i \in 1..Len(p)
                /\ \A j \in 1..Len(p) : p[j] <= p[i]
                /\ \A j \in 1..(i - 1) : p[j] < p[i]
                /\ response[r].status = 200 =>
                      ResultOf(r).label =
                          <<"Vehicle", "Industry", "Construction", "Clean">>[i]

\* Three classes tie at the maximum and the lowest of them was selected.
C2_Witness ==
    \E r \in Requests :
        /\ Succeeded(r)
        /\ proba[r] = <<0, 8000, 8000, 8000>>
        /\ idx[r] = 1
        /\ ResultOf(r).label = "Industry"

\* C3: the confidence of every successful response lies in [0.0, 100.0] and
\* is a whole number of tenths.
C3_ConfidenceRange ==
    \A r \in Requests :
        response[r].status = 200 =>
            /\ ResultOf(r).confidence >= 0
            /\ ResultOf(r).confidence <= 100 * Scale
            /\ ResultOf(r).confidence % (Scale \div 10) = 0

\* The selected probability was above 1 and the confidence is 100.0.
C3_Witness ==
    \E r \in Requests :
        /\ Succeeded(r)
        /\ proba[r][idx[r] + 1] > Scale
        /\ ResultOf(r).confidence = 100 * Scale

\* The handling of request r never got past validation.
Rejected422(r) ==
    /\ pc[r] \in {"received", "done"}
    /\ calls[r] = 0
    /\ data[r] = NoData /\ x[r] = <<>> /\ proba[r] = <<>>
    /\ response[r].body = {}
    /\ pc[r] = "done" =>
          /\ response[r].status = 422
          /\ response[r].detail # {}
          /\ response[r].detail \subseteq
                {f \in FieldNames : f \notin DOMAIN body[r] \/ body[r][f].kind = "str"}

\* C4 as stated: a request that misses one of the 7 fields, or carries a
\* value of another JSON type than the declared one (a string, for these
\* numeric fields), never reaches the handler.
C4_WrongTypeRejected ==
    \A r \in Requests :
        (/\ pc[r] # "idle"
         /\ \E f \in {"VOC_avg", "VOC_std", "CO2_avg", "CO2_std",
                      "Vibration_amp", "Vibration_freq", "Hour"} :
               f \notin DOMAIN body[r] \/ body[r][f].kind = "str")
        => Rejected422(r)

\* A body that misses one of the 7 fields, or carries in one a string that
\* spells no number of the declared type.
Malformed(b) ==
    \E f \in {"VOC_avg", "VOC_std", "CO2_avg", "CO2_std",
              "Vibration_amp", "Vibration_freq", "Hour"} :
        \/ f \notin DOMAIN b
        \/ /\ b[f].kind = "str"
           /\ b[f].text \notin (IF f = "Hour" THEN {"14"} ELSE {"14", "1.2"})

\* C4, amended: a request with a malformed body never reaches the handler:
\* no FeatureInput is built, predict_proba is not called for it, and it ends
\* with a 422 that names offending fields and holds no result.
C4_MalformedRejected ==
    \A r \in Requests :
        (pc[r] # "idle" /\ Malformed(body[r])) => Rejected422(r)

\* Hour was the string "five" and the request was rejected.
C4_Witness ==
    \E r \in Requests :
        /\ pc[r] = "done"
        /\ "Hour" \in DOMAIN body[r]
        /\ body[r]["Hour"] = JStr("five")
        /\ response[r] = ValidationError({"Hour"})
        /\ calls[r] = 0

\* The model raised on the vector of request r.
ModelFailed(r) ==
    /\ pc[r] = "done"
    /\ x[r] # <<>>
    /\ model[x[r]].raised

\* C5: a request on whose vector the model raises ends with a 500 that holds
\* no result, after exactly one call of predict_proba; no request is ever
\* given a second call; the step that fails changes none of the globals;
\* and while such a failed request is around, every finished request has
\* the response it gets when handled alone.
C5_FailureIsolated ==
    /\ [](\A r \in Requests :
            /\ calls[r] <= 1
            /\ ModelFailed(r) =>
                  /\ response[r].status = 500
                  /\ response[r].body = {}
                  /\ calls[r] = 1
                  /\ \A q \in Requests :
                        pc[q] = "done" =>
                            response[q] = ClassifyAlone(model, SOURCES,
                                                        MODEL_ACCURACY, body[q]))
    /\ [][\A r \in Requests :
            (pc[r] = "assembled" /\ pc'[r] = "done") =>
                /\ model' = model
                /\ deploy_features' = deploy_features
                /\ SOURCES' = SOURCES
                /\ MODEL_ACCURACY' = MODEL_ACCURACY
                /\ \A q \in Requests \ {r} :
                      /\ pc'[q] = pc[q]
                      /\ response'[q] = response[q]]_vars

\* One request failed in the model and another, served beside it, succeeded.
C5_Witness ==
    \E r, q \in Requests :
        /\ ModelFailed(r)
        /\ response[r].status = 500
        /\ Succeeded(q)
        /\ ResultOf(q).label = "Clean"

\* C6: modelAccuracy of every successful response is 95.2.
C6_AccuracyConstant ==
    \A r \in Requests :
        response[r].status = 200 => ResultOf(r).modelAccuracy = 952000

\* Two successful responses with different labels and confidences.
C6_Witness ==
    \E r, q \in Requests :
        /\ Succeeded(r) /\ Succeeded(q)
        /\ ResultOf(r).label # ResultOf(q).label
        /\ ResultOf(r).confidence # ResultOf(q).confidence
        /\ ResultOf(r).modelAccuracy = 952000
        /\ ResultOf(q).modelAccuracy = 952000

\* C7: two finished requests with the same body have the same response.
C7_Deterministic ==
    \A r, q \in Requests :
        (pc[r] = "done" /\ pc[q] = "done" /\ body[r] = body[q]) =>
            response[r] = response[q]

\* Two requests with the same valid body, both answered with a result.
C7_Witness ==
    \E r, q \in Requests :
        /\ r # q
        /\ Succeeded(r) /\ Succeeded(q)
        /\ body[r] = body[q]
        /\ response[r] = response[q]

\* C8: no request is taken before the model and the feature names are
\* loaded; once loaded they never change; a request's locals come from its
\* own body, its response is the one it gets when handled alone, and a
\* request under way can always take its next step.
C8_SharedReadOnly ==
    /\ [](phase = "import" =>
            /\ model = NoModel /\ deploy_features = <<>>
            /\ \A r \in Requests : pc[r] = "idle")
    /\ [][phase = "serving" =>
            /\ phase' = "serving"
            /\ model' = model
            /\ deploy_features' = deploy_features]_vars
    /\ [](\A r \in Requests :
            /\ x[r] # <<>> => x[r] = FeatureVector(FeatureInput(body[r]))
            /\ proba[r] # <<>> => proba[r] = model[x[r]].proba
            /\ pc[r] = "done" =>
                  response[r] = ClassifyAlone(model, SOURCES, MODEL_ACCURACY,
                                              body[r])
            /\ pc[r] \notin {"idle", "done"} => ENABLED Handle(r))

\* Two requests with different bodies are both between predict_proba and
\* the response.
C8_Witness ==
    \E r, q \in Requests :
        /\ pc[r] = "predicted" /\ pc[q] = "predicted"
        /\ body[r] # body[q]
        /\ proba[r] # proba[q]

\* The largest value of a row.
MaxOf(p) == CHOOSE v \in {p[j] : j \in 1..Len(p)} : \A j \in 1..Len(p) : p[j] <= v

\* C9: the confidence is the multiple of 0.1 nearest to 100 times the
\* largest probability of the row, that probability taken as 0 when below 0
\* and as 1 when above 1; the row [0.1, 0.05, 0.05, 0.8] gives label Clean,
\* confidence 80.0 and modelAccuracy 95.2.
C9_ConfidenceOfMaximum ==
    \A r \in Requests :
        response[r].status = 200 =>
            LET m == MaxOf(proba[r])
                c == IF m < 0 THEN 0 ELSE IF m > Scale THEN Scale ELSE m
                d == ResultOf(r).confidence - 100 * c
            IN  /\ ResultOf(r).confidence % (Scale \div 10) = 0
                /\ 2 * d <= Scale \div 10
                /\ 2 * d >= -(Scale \div 10)
                /\ proba[r] = <<1000, 500, 500, 8000>> =>
                      response[r].body =
                          {[label |-> "Clean", confidence |-> 800000,
                            modelAccuracy |-> 952000]}

\* The documented example: the example request, the example row, the
\* example result.
C9_Witness ==
    \E r \in Requests :
        /\ Succeeded(r)
        /\ body[r] = ExampleBody
        /\ proba[r] = <<1000, 500, 500, 8000>>
        /\ ResultOf(r) = [label |-> "Clean", confidence |-> 800000,
                          modelAccuracy |-> 952000]

\* A body with all 7 fields, each a JSON number, Hour a whole number.
WellFormed(b) ==
    /\ DOMAIN b = {"VOC_avg", "VOC_std", "CO2_avg", "CO2_std",
                   "Vibration_amp", "Vibration_freq", "Hour"}
    /\ \A f \in DOMAIN b : b[f].kind = "num"
    /\ b["Hour"].num % Scale = 0

\* The number a JSON value of an accepted body stands for.
Denotes(v) == IF v.kind = "num" THEN v.num ELSE NumberOfText(v.text)

\* C10: a well-formed request is never rejected by validation, whatever its
\* Hour, and the vector built for a request, which is the one predict_proba
\* is called with, holds the values of VOC_avg, VOC_std, CO2_avg, CO2_std,
\* Vibration_amp, Vibration_freq and Hour in this order.
C10_VectorInFieldOrder ==
    \A r \in Requests :
        /\ (pc[r] = "done" /\ WellFormed(body[r])) =>
              /\ response[r].status # 422
              /\ calls[r] = 1
        /\ x[r] # <<>> =>
              x[r] = <<Denotes(body[r]["VOC_avg"]), Denotes(body[r]["VOC_std"]),
                       Denotes(body[r]["CO2_avg"]), Denotes(body[r]["CO2_std"]),
                       Denotes(body[r]["Vibration_amp"]),
                       Denotes(body[r]["Vibration_freq"]),
                       Denotes(body[r]["Hour"])>>
        /\ calls[r] > 0 => x[r] # <<>> /\ x[r] \in DOMAIN model

\* A request with Hour 25 went to the model with 25.0 in the last place.
C10_Witness ==
    \E r \in Requests :
        /\ calls[r] = 1
        /\ body[r]["Hour"] = JNum(25 * Scale)
        /\ Len(x[r]) = 7
        /\ x[r][7] = 25 * Scale
        /\ x[r][3] = 4100000

=============================================================================
